---- MODULE Spec2Model ----
(***************************************************************************)
(* A model of the content-intelligence backend: the relational store       *)
(* (trends, scored_trends, content_drafts, configurations, audit_logs),    *)
(* the ingestion run, the generation cycle and the approval / scheduling   *)
(* / configuration endpoints.  Every job or request handler works through  *)
(* its own SQLAlchemy session (autocommit=False, autoflush=False): rows it *)
(* adds stay in the session until its commit, and its queries read only    *)
(* committed rows.                                                         *)
(***************************************************************************)
EXTENDS Integers, Sequences, FiniteSets, TLC

(* ------------------------------ bounds -------------------------------- *)

\* Score rows present when generation cycles start.
NumScores == 3
\* Largest limit a caller passes to generate_content_for_top_trends.
MaxLimit == 2
\* Generation calls of one Score that fail individually (besides "all fail").
MaxFailedCalls == 1
\* Content drafts present when the approval endpoints are exercised.
NumDrafts == 1
\* Rows the audit log may hold before the endpoints stop being exercised.
MaxAudit == 2
\* Last instant of the clock.
MaxTime == 1
\* Distinct external identifiers the feed collaborators deliver.
NumExternalIds == 1
\* Records delivered to one ingestion run.
MaxBatch == 2
\* Ingested items present when scoring cycles start.
NumItems == 3
\* Sample items of the seeding script.
NumSamples == 1
\* The limit every cycle of the scheduled pipeline is run with.
FixedLimit == 1

(* --------------------------- program values --------------------------- *)

\* None for an optional string, and for an optional datetime; a datetime
\* is the clock value it holds.
None == "None"
NoneTime == <<>>
datetime(t) == <<t>>

\* ContentStatus
PENDING == "pending"
APPROVED == "approved"
REJECTED == "rejected"
SCHEDULED == "scheduled"
PUBLISHED == "published"
ContentStatus == {PENDING, APPROVED, REJECTED, SCHEDULED, PUBLISHED}

\* Platform, in the order generate_content_for_trend walks them
platforms == <<"twitter", "linkedin", "instagram", "facebook">>

\* ContentAngle
EXPLAINER == "explainer"
INVESTOR == "investor"
PROPERTY == "property"
CONTRARIAN == "contrarian"
DATA_BACKED == "data_backed"

\* RiskLevel
SAFE == "safe"
SENSITIVE == "sensitive"
AVOID == "avoid"

property_keywords == {"real estate", "housing", "rent", "property", "land", "mortgage"}

\* The sessions (pipeline instances, request handlers) that may be open at once.
Workers == {"w1", "w2"}

Min(a, b) == IF a <= b THEN a ELSE b

(* ------------------------------- state -------------------------------- *)

VARIABLES
    trends,          \* table trends: sequence of rows, id = position
    scored_trends,   \* table scored_trends: sequence of rows, id = position
    content_drafts,  \* table content_drafts: sequence of rows, id = position
    configurations,  \* table configurations: sequence of rows, id = position
    audit_logs,      \* table audit_logs: sequence of rows, id = position
    now,             \* datetime.utcnow()
    pc,              \* per session: the job it is in the middle of
    sess,            \* per session: the job's local variables and pending rows
    resp             \* what the last finished job or request returned

vars == <<trends, scored_trends, content_drafts, configurations, audit_logs,
          now, pc, sess, resp>>

NoRecord == [id |-> 0, likes |-> 0]

IdleSession ==
    [selected |-> <<>>, count |-> 0, source |-> "none", seen |-> 0,
     record |-> NoRecord, pending |-> <<>>]

AllIdle == \A w \in Workers : pc[w] = "idle"

(* ------------------------- generation cycle --------------------------- *)

\* The rules' angles cut to the last three.
_select_angles_LastThree(scored_trend) ==
    LET a1 == IF scored_trend.relevance_score >= 70 THEN <<EXPLAINER>> ELSE <<>>
        a2 == IF scored_trend.macro_impact_score >= 50
              THEN Append(a1, INVESTOR) ELSE a1
        a3 == IF scored_trend.keyword_matches \cap property_keywords # {}
              THEN Append(a2, PROPERTY) ELSE a2
        a4 == IF scored_trend.virality_score >= 50
              THEN Append(a3, DATA_BACKED) ELSE a3
        a5 == IF scored_trend.relevance_score >= 80
                   /\ scored_trend.macro_impact_score >= 60
              THEN Append(a4, CONTRARIAN) ELSE a4
        a6 == IF a5 = <<>> THEN <<EXPLAINER>> ELSE a5
    IN SubSeq(a6, Len(a6) - Min(3, Len(a6)) + 1, Len(a6))

\* The rules' angles, all of them.
_select_angles_Untruncated(scored_trend) ==
    LET a1 == IF scored_trend.relevance_score >= 70 THEN <<EXPLAINER>> ELSE <<>>
        a2 == IF scored_trend.macro_impact_score >= 50
              THEN Append(a1, INVESTOR) ELSE a1
        a3 == IF scored_trend.keyword_matches \cap property_keywords # {}
              THEN Append(a2, PROPERTY) ELSE a2
        a4 == IF scored_trend.virality_score >= 50
              THEN Append(a3, DATA_BACKED) ELSE a3
        a5 == IF scored_trend.relevance_score >= 80
                   /\ scored_trend.macro_impact_score >= 60
              THEN Append(a4, CONTRARIAN) ELSE a4
    IN IF a5 = <<>> THEN <<EXPLAINER>> ELSE a5

\* _select_angles: five rules in fixed order, default explainer, first three.
_select_angles(scored_trend) ==
    LET a1 == IF scored_trend.relevance_score >= 70 THEN <<EXPLAINER>> ELSE <<>>
        a2 == IF scored_trend.macro_impact_score >= 50
              THEN Append(a1, INVESTOR) ELSE a1
        a3 == IF scored_trend.keyword_matches \cap property_keywords # {}
              THEN Append(a2, PROPERTY) ELSE a2
        a4 == IF scored_trend.virality_score >= 50
              THEN Append(a3, DATA_BACKED) ELSE a3
        a5 == IF scored_trend.relevance_score >= 80
                   /\ scored_trend.macro_impact_score >= 60
              THEN Append(a4, CONTRARIAN) ELSE a4
        a6 == IF a5 = <<>> THEN <<EXPLAINER>> ELSE a5
    IN SubSeq(a6, 1, Min(3, Len(a6)))

\* The (angle, platform) pairs in the order of the nested loops.
AnglePlatformPairs(angles) ==
    [k \in 1..(Len(angles) * Len(platforms)) |->
        [angle |-> angles[((k - 1) \div Len(platforms)) + 1],
         platform |-> platforms[((k - 1) % Len(platforms)) + 1]]]

\* _generate_single_draft, when the generation call succeeds.  The row
\* keeps the columns an operation reads or the approval workflow writes;
\* of each pair (approved_by, approved_at) the actor stands for both, and
\* hook, thread, carousel_slides, ai_model, generated_at, published_at and
\* external_post_id are written once at most and read by no operation.
NewDraft(scored_trend_id, platform, angle) ==
    [scored_trend_id |-> scored_trend_id,
     platform |-> platform,
     angle |-> angle,
     content |-> "generated",
     status |-> PENDING,
     edited_content |-> None,
     edited_at |-> NoneTime,
     edited_by |-> None,
     approved_by |-> None,
     rejection_reason |-> None,
     scheduled_for |-> NoneTime]

\* The query without its outer join on content_drafts.
DraftlessEligible_NoJoin ==
    {i \in 1..Len(scored_trends) : scored_trends[i].passed_filter}

\* Ids of the Scores the cycle's query returns rows for: passed_filter and
\* no content draft joined to them.
DraftlessEligible ==
    {i \in 1..Len(scored_trends) :
        /\ scored_trends[i].passed_filter
        /\ \A d \in 1..Len(content_drafts) : content_drafts[d].scored_trend_id # i}

\* The query without its ORDER BY: any limit of the candidates.
TopByRelevance_Unordered(cands, limit) ==
    LET n == Cardinality(cands)
        orders == {s \in [1..n -> cands] :
                     \A i, j \in 1..n : i # j => s[i] # s[j]}
    IN {SubSeq(s, 1, Min(limit, n)) : s \in orders}

\* ORDER BY relevance_score DESC LIMIT limit: every order the store may
\* return (ties are in any order).
TopByRelevance(cands, limit) ==
    LET n == Cardinality(cands)
        orders == {s \in [1..n -> cands] :
                     /\ \A i, j \in 1..n : i # j => s[i] # s[j]
                     /\ \A i, j \in 1..n : i < j =>
                          scored_trends[s[i]].relevance_score
                            >= scored_trends[s[j]].relevance_score}
    IN {SubSeq(s, 1, Min(limit, n)) : s \in orders}

\* The sets of calls of one Score that the generation collaborator may fail.
RECURSIVE SubsetsUpTo(_, _)
SubsetsUpTo(S, k) ==
    IF k = 0 THEN {{}}
    ELSE LET P == SubsetsUpTo(S, k - 1)
         IN P \cup {F \cup {x} : F \in P, x \in S}

CallOutcomes(n) == SubsetsUpTo(1..n, MaxFailedCalls) \cup {1..n}

\* generate_content_for_top_trends without a configured model: returns 0.
generate_no_model(w) ==
    /\ pc[w] = "idle"
    /\ resp' = [op |-> "generate", by |-> w, status |-> "success", count |-> 0]
    /\ UNCHANGED <<trends, scored_trends, content_drafts, configurations,
                   audit_logs, now, pc, sess>>

\* generate_content_for_top_trends up to the query; an empty result returns 0.
generate_content_for_top_trends(w, limit) ==
    /\ pc[w] = "idle"
    /\ \E sel \in TopByRelevance(DraftlessEligible, limit) :
        IF sel = <<>>
        THEN /\ resp' = [op |-> "generate", by |-> w, status |-> "success",
                         count |-> 0]
             /\ UNCHANGED <<pc, sess>>
        ELSE /\ pc' = [pc EXCEPT ![w] = "generate"]
             /\ sess' = [sess EXCEPT ![w] = [IdleSession EXCEPT !.selected = sel]]
             /\ UNCHANGED resp
    /\ UNCHANGED <<trends, scored_trends, content_drafts, configurations,
                   audit_logs, now>>

\* The loops stopping at the first call that fails.
SuccessfulCalls_AbortOnFailure(pairs, failed) ==
    LET first == IF \E k \in 1..Len(pairs) : k \in failed
                 THEN CHOOSE k \in 1..Len(pairs) :
                        k \in failed /\ \A j \in 1..(k - 1) : j \notin failed
                 ELSE Len(pairs) + 1
    IN [k \in 1..(first - 1) |-> [pair |-> pairs[k], failed |-> FALSE]]

\* The nested loops of generate_content_for_trend: a call that raises or
\* returns None is logged and skipped, the others yield a draft each.
SuccessfulCalls(pairs, failed) ==
    SelectSeq([k \in 1..Len(pairs) |->
                  [pair |-> pairs[k], failed |-> k \in failed]],
              LAMBDA c : ~c.failed)

\* generate_content_for_trend when the calls in failed are the ones that fail.
generate_calls(w, failed) ==
    LET id == Head(sess[w].selected)
        pairs == AnglePlatformPairs(_select_angles(scored_trends[id]))
        ok == SuccessfulCalls(pairs, failed)
        drafts == [k \in 1..Len(ok) |->
                     NewDraft(id, ok[k].pair.platform, ok[k].pair.angle)]
    IN /\ content_drafts' = content_drafts \o drafts
       /\ sess' = [sess EXCEPT ![w].selected = Tail(@),
                               ![w].count = @ + Len(drafts)]
       /\ UNCHANGED <<trends, scored_trends, configurations, audit_logs, now,
                      pc, resp>>

\* generate_content_for_trend for the next selected Score: one call per
\* (angle, platform), the successful ones added, then one commit.
generate_content_for_trend(w) ==
    /\ pc[w] = "generate"
    /\ sess[w].selected # <<>>
    /\ \E failed \in CallOutcomes(Len(_select_angles(
                         scored_trends[Head(sess[w].selected)])) * Len(platforms)) :
          generate_calls(w, failed)

\* The end of generate_content_for_top_trends: returns total_generated.
generate_return(w) ==
    /\ pc[w] = "generate"
    /\ sess[w].selected = <<>>
    /\ resp' = [op |-> "generate", by |-> w, status |-> "success",
                count |-> sess[w].count]
    /\ pc' = [pc EXCEPT ![w] = "idle"]
    /\ sess' = [sess EXCEPT ![w] = IdleSession]
    /\ UNCHANGED <<trends, scored_trends, content_drafts, configurations,
                   audit_logs, now>>

(* ------------------ the store when generation starts ------------------ *)

\* Score rows as score_trend and the seeding script write them, by id.
ScoreProfiles ==
    << [relevance_score |-> 85, macro_impact_score |-> 70, virality_score |-> 60,
        keyword_matches |-> {"housing", "policy", "government"},
        risk_level |-> SAFE, passed_filter |-> TRUE],
       [relevance_score |-> 60, macro_impact_score |-> 0, virality_score |-> 0,
        keyword_matches |-> {"rent", "lagos", "power"},
        risk_level |-> SAFE, passed_filter |-> TRUE],
       [relevance_score |-> 70, macro_impact_score |-> 0, virality_score |-> 0,
        keyword_matches |-> {"housing", "rent", "lagos"},
        risk_level |-> AVOID, passed_filter |-> FALSE],
       [relevance_score |-> 45, macro_impact_score |-> 0, virality_score |-> 0,
        keyword_matches |-> {"land", "lagos"},
        risk_level |-> SAFE, passed_filter |-> FALSE] >>

ScoredTrend(trend_id, profile) ==
    [trend_id |-> trend_id,
     relevance_score |-> profile.relevance_score,
     risk_level |-> profile.risk_level,
     virality_score |-> profile.virality_score,
     keyword_matches |-> profile.keyword_matches,
     macro_impact_score |-> profile.macro_impact_score,
     passed_filter |-> profile.passed_filter]

\* An item row; the delivered records are dated at hour 0 of the clock.
Trend(source, external_id, likes, processed) ==
    [source |-> source,
     source_id |-> <<source, external_id>>,
     likes |-> likes,
     timestamp |-> 0,
     processed |-> processed]

EmptySessions ==
    /\ pc = [w \in Workers |-> "idle"]
    /\ sess = [w \in Workers |-> IdleSession]
    /\ resp = [op |-> "none"]

\* Items ingested and scored, no draft generated yet.
InitGen ==
    /\ trends = [i \in 1..NumScores |-> Trend("google_news", i, 0, TRUE)]
    /\ scored_trends = [i \in 1..NumScores |->
           ScoredTrend(i, ScoreProfiles[((i - 1) % Len(ScoreProfiles)) + 1])]
    /\ content_drafts = <<>>
    /\ configurations = <<>>
    /\ audit_logs = <<>>
    /\ now = 0
    /\ EmptySessions

\* Generation cycles run one after another.
NextGenSeq ==
    \E w \in Workers :
        \/ AllIdle /\ generate_no_model(w)
        \/ AllIdle /\ \E limit \in 0..MaxLimit : generate_content_for_top_trends(w, limit)
        \/ generate_content_for_trend(w)
        \/ generate_return(w)

SpecGenSeq == InitGen /\ [][NextGenSeq]_vars

\* Generation cycles with the same limit, run one after another by a
\* configured service.
NextGenFixed ==
    \E w \in Workers :
        \/ AllIdle /\ generate_content_for_top_trends(w, FixedLimit)
        \/ generate_content_for_trend(w)
        \/ generate_return(w)

\* The scheduler keeps starting cycles, and a started cycle runs to its end;
\* whether a generation call succeeds is up to the collaborator.
SpecGenFair ==
    /\ InitGen
    /\ [][NextGenFixed]_vars
    /\ WF_vars(\E w \in Workers :
                  AllIdle /\ generate_content_for_top_trends(w, FixedLimit))
    /\ WF_vars(\E w \in Workers : generate_content_for_trend(w))
    /\ WF_vars(\E w \in Workers : generate_return(w))

\* Generation cycles of several pipeline instances interleave.
NextGenConc ==
    \E w \in Workers :
        \/ generate_no_model(w)
        \/ \E limit \in 0..MaxLimit : generate_content_for_top_trends(w, limit)
        \/ generate_content_for_trend(w)
        \/ generate_return(w)

\* The store after a first cycle with limit 1 drafted the top Score in full.
InitGenConc ==
    /\ trends = [i \in 1..NumScores |-> Trend("google_news", i, 0, TRUE)]
    /\ scored_trends = [i \in 1..NumScores |->
           ScoredTrend(i, ScoreProfiles[((i - 1) % Len(ScoreProfiles)) + 1])]
    /\ content_drafts =
           LET pairs == AnglePlatformPairs(_select_angles(
                            ScoredTrend(1, ScoreProfiles[1])))
           IN [k \in 1..Len(pairs) |-> NewDraft(1, pairs[k].platform, pairs[k].angle)]
    /\ configurations = <<>>
    /\ audit_logs = <<>>
    /\ now = 0
    /\ EmptySessions

SpecGenConc == InitGenConc /\ [][NextGenConc]_vars

(* ------------------- approval and scheduling endpoints ---------------- *)

\* Request field values.
Actors == {"editor@ue.test"}
RequestActions == {"approve", "reject", "edit", "publish"}
EditedContents == {None, "", "edited"}
RejectionReasons == {None, "off-brand"}
ConfigKeys == {"relevance_threshold"}
ConfigValues == {[value |-> 60], [value |-> 70]}

\* ApprovalRequest bodies; a field the chosen branch does not read is left
\* at its default.
ApprovalRequests ==
    {r \in [content_id : 1..(NumDrafts + 1), action : RequestActions,
            edited_content : EditedContents,
            rejection_reason : RejectionReasons, approved_by : Actors] :
        /\ r.action # "reject" => r.rejection_reason = None
        /\ r.action \notin {"approve", "edit"} => r.edited_content = None}

\* ScheduleRequest bodies: no timestamp, the first instant of the clock (never
\* later than the current time) or an instant the clock never reaches.
ScheduleRequests ==
    [content_id : 1..(NumDrafts + 1),
     scheduled_for : {NoneTime, datetime(0), datetime(MaxTime + 1)}]

\* ConfigUpdateRequest bodies.
ConfigUpdateRequests ==
    [key : ConfigKeys, value : ConfigValues, updated_by : Actors]

\* Python truthiness of an Optional[str] / Optional[datetime] request field.
Truthy(v) == v # None /\ v # ""

\* The generated body, whatever was edited.
DisplayContent_Generated(draft) == draft.content

\* draft.edited_content or draft.content
DisplayContent(draft) ==
    IF Truthy(draft.edited_content) THEN draft.edited_content ELSE draft.content

AuditLog(action, entity_type, entity_id, user_email, details) ==
    [action |-> action,
     entity_type |-> entity_type,
     entity_id |-> entity_id,
     user_email |-> user_email,
     details |-> details]

\* The draft after the "approve" branch of approve_content.
ApproveBranch(draft, edited_content, approved_by) ==
    LET approved == [draft EXCEPT !.status = APPROVED,
                                  !.approved_by = approved_by]
    IN IF Truthy(edited_content)
       THEN [approved EXCEPT !.edited_content = edited_content,
                             !.edited_at = datetime(now),
                             !.edited_by = approved_by]
       ELSE approved

\* The draft after the "reject" branch of approve_content.
RejectBranch(draft, rejection_reason) ==
    [draft EXCEPT !.status = REJECTED, !.rejection_reason = rejection_reason]

\* An edit that also sends the draft back to review.
EditBranch_ResetsStatus(draft, edited_content, approved_by) ==
    [draft EXCEPT !.edited_content = edited_content,
                  !.edited_at = datetime(now),
                  !.edited_by = approved_by,
                  !.status = PENDING]

\* The draft after the "edit" branch of approve_content.
EditBranch(draft, edited_content, approved_by) ==
    [draft EXCEPT !.edited_content = edited_content,
                  !.edited_at = datetime(now),
                  !.edited_by = approved_by]

Response(op, id, code, detail) == [op |-> op, id |-> id, code |-> code, detail |-> detail]

\* POST /content/approve
approve_content(request) ==
    /\ AllIdle
    /\ UNCHANGED <<trends, scored_trends, configurations, now, pc, sess>>
    /\ IF request.action \notin {"approve", "reject", "edit"}
       THEN \* ApprovalRequest.action does not match its pattern
            /\ resp' = Response(request.action, request.content_id, 422, "validation")
            /\ UNCHANGED <<content_drafts, audit_logs>>
       ELSE IF request.content_id \notin 1..Len(content_drafts)
       THEN /\ resp' = Response(request.action, request.content_id, 404,
                                "Content draft not found")
            /\ UNCHANGED <<content_drafts, audit_logs>>
       ELSE LET draft == content_drafts[request.content_id] IN
            CASE request.action = "approve" ->
                   /\ content_drafts' = [content_drafts EXCEPT ![request.content_id] =
                          ApproveBranch(draft, request.edited_content,
                                        request.approved_by)]
                   /\ audit_logs' = Append(audit_logs,
                          AuditLog("content_approved", "content_draft",
                                   request.content_id, request.approved_by,
                                   [platform |-> draft.platform,
                                    angle |-> draft.angle,
                                    was_edited |-> request.edited_content # None]))
                   /\ resp' = Response(request.action, request.content_id, 200,
                                       APPROVED)
              [] request.action = "reject" ->
                   /\ content_drafts' = [content_drafts EXCEPT ![request.content_id] =
                          RejectBranch(draft, request.rejection_reason)]
                   /\ audit_logs' = Append(audit_logs,
                          AuditLog("content_rejected", "content_draft",
                                   request.content_id, request.approved_by,
                                   [platform |-> draft.platform,
                                    reason |-> request.rejection_reason]))
                   /\ resp' = Response(request.action, request.content_id, 200,
                                       REJECTED)
              [] request.action = "edit" ->
                   IF ~Truthy(request.edited_content)
                   THEN /\ resp' = Response(request.action, request.content_id, 400,
                                            "edited_content required for edit action")
                        /\ UNCHANGED <<content_drafts, audit_logs>>
                   ELSE /\ content_drafts' = [content_drafts EXCEPT ![request.content_id] =
                               EditBranch(draft, request.edited_content,
                                          request.approved_by)]
                        /\ resp' = Response(request.action, request.content_id, 200,
                                            draft.status)
                        /\ UNCHANGED audit_logs

\* The precondition left out.
SchedulePrecondition_Unchecked(draft) == draft.status \in ContentStatus

\* The precondition letting a scheduled draft be scheduled again.
SchedulePrecondition_Reschedule(draft) == draft.status \in {APPROVED, SCHEDULED}

\* The precondition of schedule_content.
SchedulePrecondition(draft) == draft.status = APPROVED

\* The draft after schedule_content's "if request.scheduled_for" statement.
ScheduleBranch(draft, scheduled_for) ==
    IF scheduled_for # NoneTime
    THEN [draft EXCEPT !.scheduled_for = scheduled_for, !.status = SCHEDULED]
    ELSE draft

\* POST /content/schedule
schedule_content(request) ==
    /\ AllIdle
    /\ UNCHANGED <<trends, scored_trends, configurations, audit_logs, now, pc, sess>>
    /\ IF request.content_id \notin 1..Len(content_drafts)
       THEN /\ resp' = Response("schedule", request.content_id, 404,
                                "Content draft not found")
            /\ UNCHANGED content_drafts
       ELSE IF ~SchedulePrecondition(content_drafts[request.content_id])
       THEN /\ resp' = Response("schedule", request.content_id, 400,
                                "Content must be approved before scheduling")
            /\ UNCHANGED content_drafts
       ELSE LET draft == ScheduleBranch(content_drafts[request.content_id],
                                        request.scheduled_for) IN
            /\ content_drafts' = [content_drafts EXCEPT ![request.content_id] = draft]
            /\ resp' = Response("schedule", request.content_id, 200,
                                [content |-> DisplayContent(draft),
                                 scheduled_for |-> draft.scheduled_for])

\* GET /content: the drafts with the given status (all, when none is given),
\* each with the body shown for it.
get_content_drafts(status) ==
    /\ AllIdle
    /\ resp' = Response("get_content_drafts", 0, 200,
           SelectSeq([i \in 1..Len(content_drafts) |->
                         [id |-> i,
                          content |-> DisplayContent(content_drafts[i]),
                          status |-> content_drafts[i].status]],
                     LAMBDA row : status = None \/ row.status = status))
    /\ UNCHANGED <<trends, scored_trends, content_drafts, configurations,
                   audit_logs, now, pc, sess>>

\* GET /content/{content_id}
get_content_draft(content_id) ==
    /\ AllIdle
    /\ resp' = IF content_id \notin 1..Len(content_drafts)
               THEN Response("get_content_draft", content_id, 404,
                             "Content draft not found")
               ELSE Response("get_content_draft", content_id, 200,
                             [content |-> DisplayContent(content_drafts[content_id]),
                              status |-> content_drafts[content_id].status])
    /\ UNCHANGED <<trends, scored_trends, content_drafts, configurations,
                   audit_logs, now, pc, sess>>

\* The configurations row with this key, 0 when there is none.
ConfigId(key) ==
    IF \E i \in 1..Len(configurations) : configurations[i].key = key
    THEN CHOOSE i \in 1..Len(configurations) : configurations[i].key = key
    ELSE 0

\* POST /config up to its first commit: the configuration row is written and
\* committed; the audit entry is not yet added.
update_config(w, request) ==
    /\ AllIdle
    /\ LET found == ConfigId(request.key)
           id == IF found # 0 THEN found ELSE Len(configurations) + 1
           row == [key |-> request.key, value |-> request.value,
                   updated_by |-> request.updated_by,
                   updated_at |-> datetime(now)]
       IN /\ configurations' = IF found # 0
                               THEN [configurations EXCEPT ![found] = row]
                               ELSE Append(configurations, row)
          /\ sess' = [sess EXCEPT ![w] =
                 [IdleSession EXCEPT !.pending =
                     <<AuditLog("config_updated", "configuration", id,
                                request.updated_by,
                                [key |-> request.key, value |-> request.value])>>]]
    /\ pc' = [pc EXCEPT ![w] = "config_log"]
    /\ UNCHANGED <<trends, scored_trends, content_drafts, audit_logs, now, resp>>

\* POST /config from the audit entry on: db.add(log), the second commit and
\* the response.
update_config_log(w) ==
    /\ pc[w] = "config_log"
    /\ audit_logs' = audit_logs \o sess[w].pending
    /\ resp' = Response("config", sess[w].pending[1].entity_id, 200, "success")
    /\ pc' = [pc EXCEPT ![w] = "idle"]
    /\ sess' = [sess EXCEPT ![w] = IdleSession]
    /\ UNCHANGED <<trends, scored_trends, content_drafts, configurations, now>>

\* The handler stops between its two commits (the process is killed or the
\* second commit fails): the session and its audit entry are discarded.
update_config_interrupted(w) ==
    /\ pc[w] = "config_log"
    /\ resp' = Response("config", sess[w].pending[1].entity_id, 500, "error")
    /\ pc' = [pc EXCEPT ![w] = "idle"]
    /\ sess' = [sess EXCEPT ![w] = IdleSession]
    /\ UNCHANGED <<trends, scored_trends, content_drafts, configurations,
                   audit_logs, now>>

\* Time passes.
Tick ==
    /\ now < MaxTime
    /\ now' = now + 1
    /\ UNCHANGED <<trends, scored_trends, content_drafts, configurations,
                   audit_logs, pc, sess, resp>>

\* The top Score's first drafts, generated and pending review.
InitApproval ==
    /\ trends = [i \in 1..NumScores |-> Trend("google_news", i, 0, TRUE)]
    /\ scored_trends = [i \in 1..NumScores |->
           ScoredTrend(i, ScoreProfiles[((i - 1) % Len(ScoreProfiles)) + 1])]
    /\ content_drafts =
           LET pairs == AnglePlatformPairs(_select_angles(
                            ScoredTrend(1, ScoreProfiles[1])))
           IN [k \in 1..Min(NumDrafts, Len(pairs)) |->
                 NewDraft(1, pairs[k].platform, pairs[k].angle)]
    /\ configurations = <<>>
    /\ audit_logs = <<>>
    /\ now = 0
    /\ EmptySessions

\* The approval workflow: review requests arrive while time passes.
NextApproval ==
    \/ Tick
    \/ /\ Len(audit_logs) < MaxAudit
       /\ \/ \E request \in ApprovalRequests : approve_content(request)
          \/ \E request \in ScheduleRequests : schedule_content(request)

SpecApproval == InitApproval /\ [][NextApproval]_vars

\* The administrative surface: the approval workflow and configuration.
NextAdmin ==
    \/ Tick
    \/ /\ Len(audit_logs) < MaxAudit
       /\ \/ \E request \in ApprovalRequests : approve_content(request)
          \/ \E request \in ScheduleRequests : schedule_content(request)
          \/ \E w \in Workers, request \in ConfigUpdateRequests :
                update_config(w, request)
    \/ \E w \in Workers : update_config_log(w)
    \/ \E w \in Workers : update_config_interrupted(w)

SpecAdmin == InitApproval /\ [][NextAdmin]_vars

\* The review screen: drafts are read, reviewed, scheduled and exported.
NextReview ==
    \/ /\ Len(audit_logs) < MaxAudit
       /\ \/ \E request \in ApprovalRequests : approve_content(request)
          \/ \E request \in ScheduleRequests : schedule_content(request)
    \/ \E status \in {None, PENDING, APPROVED} : get_content_drafts(status)
    \/ \E content_id \in 1..(NumDrafts + 1) : get_content_draft(content_id)

SpecReview == InitApproval /\ [][NextReview]_vars

(* ----------------------------- ingestion ------------------------------ *)

\* Engagement counts a tweet may carry.
LikeCounts == {0, 7}

\* What the collaborators deliver: tweets of the whitelisted accounts (with
\* public metrics), entries of the news feeds (without).
Tweets == [id : 1..NumExternalIds, likes : LikeCounts]
FeedEntries == [id : 1..NumExternalIds, likes : {0}]

Delivered(source) == IF source = "twitter" THEN Tweets ELSE FeedEntries

\* The existence check comparing the bare external id with the prefixed
\* source_id column.
Existing_Unprefixed(source_id) ==
    \E i \in 1..Len(trends) : trends[i].source_id = <<source_id[2]>>

\* self.db.query(Trend).filter(Trend.source_id == source_id).first():
\* the query reads committed rows; with autoflush off the rows the session
\* has added are not among them.
Existing(source_id) ==
    \E i \in 1..Len(trends) : trends[i].source_id = source_id

\* ingest_whitelisted_twitter, up to the first tweet.
ingest_whitelisted_twitter(w) ==
    /\ pc[w] = "idle"
    /\ pc' = [pc EXCEPT ![w] = "ingest"]
    /\ sess' = [sess EXCEPT ![w] = [IdleSession EXCEPT !.source = "twitter"]]
    /\ UNCHANGED <<trends, scored_trends, content_drafts, configurations,
                   audit_logs, now, resp>>

\* ingest_google_news, up to the first entry.
ingest_google_news(w) ==
    /\ pc[w] = "idle"
    /\ pc' = [pc EXCEPT ![w] = "ingest"]
    /\ sess' = [sess EXCEPT ![w] = [IdleSession EXCEPT !.source = "google_news"]]
    /\ UNCHANGED <<trends, scored_trends, content_drafts, configurations,
                   audit_logs, now, resp>>

\* One pass of the loop body for the next delivered record: the existence
\* check, then the add.
ingest_record(w, record) ==
    /\ pc[w] = "ingest"
    /\ sess[w].seen < MaxBatch
    /\ record \in Delivered(sess[w].source)
    /\ IF Existing(<<sess[w].source, record.id>>)
       THEN sess' = [sess EXCEPT ![w].seen = @ + 1, ![w].record = record]
       ELSE sess' = [sess EXCEPT
                       ![w].seen = @ + 1,
                       ![w].record = record,
                       ![w].pending = Append(@, Trend(sess[w].source, record.id,
                                                      record.likes, FALSE)),
                       ![w].count = @ + 1]
    /\ UNCHANGED <<trends, scored_trends, content_drafts, configurations,
                   audit_logs, now, pc, resp>>

\* The table without its unique index: every insert is accepted.
UniqueSourceIds_NoIndex(rows) == \A i \in 1..Len(rows) : rows[i].source_id # <<>>

\* The unique index on trends.source_id accepts the session's rows.
UniqueSourceIds(rows) ==
    /\ \A i, j \in 1..Len(rows) : i # j => rows[i].source_id # rows[j].source_id
    /\ \A i \in 1..Len(rows), k \in 1..Len(trends) :
          rows[i].source_id # trends[k].source_id

\* self.db.commit() and the return; an IntegrityError rolls the session
\* back and the run returns 0.
ingest_commit(w) ==
    /\ pc[w] = "ingest"
    /\ IF UniqueSourceIds(sess[w].pending)
       THEN /\ trends' = trends \o sess[w].pending
            /\ resp' = [op |-> "ingest", by |-> w, status |-> "committed",
                        count |-> sess[w].count]
       ELSE /\ trends' = trends
            /\ resp' = [op |-> "ingest", by |-> w, status |-> "rolled back",
                        count |-> 0]
    /\ pc' = [pc EXCEPT ![w] = "idle"]
    /\ sess' = [sess EXCEPT ![w] = IdleSession]
    /\ UNCHANGED <<scored_trends, content_drafts, configurations, audit_logs, now>>

\* The store after construction.
InitIngest ==
    /\ trends = <<>>
    /\ scored_trends = <<>>
    /\ content_drafts = <<>>
    /\ configurations = <<>>
    /\ audit_logs = <<>>
    /\ now = 0
    /\ EmptySessions

\* Ingestion runs, one after another.
NextIngest ==
    \E w \in Workers :
        \/ AllIdle /\ ingest_whitelisted_twitter(w)
        \/ AllIdle /\ ingest_google_news(w)
        \/ \E record \in Tweets \cup FeedEntries : ingest_record(w, record)
        \/ ingest_commit(w)

SpecIngest == InitIngest /\ [][NextIngest]_vars

\* News ingestion runs of several pipeline instances (the scheduled job and
\* POST /trends/ingest) interleave.
NextIngestConc ==
    \E w \in Workers :
        \/ ingest_google_news(w)
        \/ \E record \in FeedEntries : ingest_record(w, record)
        \/ ingest_commit(w)

SpecIngestConc == InitIngest /\ [][NextIngestConc]_vars

(* ------------------------------ scoring ------------------------------- *)

\* settings
MAX_TRENDS_PER_CYCLE == 20
RELEVANCE_THRESHOLD == 60

\* settings.NIGERIAN_KEYWORDS, SENSITIVE_KEYWORDS and AVOID_KEYWORDS.
NIGERIAN_KEYWORDS ==
    <<"real estate", "land", "rent", "housing", "mortgage", "property",
      "power", "gas", "inflation", "naira", "policy", "investment",
      "lagos", "abuja", "nigeria", "cbn", "economy", "subsidy", "fuel",
      "electricity", "nepa", "landlord", "tenant">>

SENSITIVE_KEYWORDS ==
    <<"death", "died", "killed", "tragedy", "accident", "bomb", "terror",
      "kidnap", "murder", "protest", "riot", "clash">>

AVOID_KEYWORDS == <<"explicit", "nsfw", "porn", "xxx">>

\* A text is the set of its lower-cased words (a keyword of two words is one
\* word here).  Words of the model that contain a shorter term.
Substrings ==
    {<<"explicitly", "explicit">>, <<"protesters", "protest">>,
     <<"taxi", "tax">>, <<"lawyer", "law">>}

\* Python's "term in text": the term occurs anywhere, inside a word too.
InText(term, text) ==
    \E word \in text : word = term \/ <<word, term>> \in Substrings

\* re.search(r'\b' + re.escape(keyword) + r'\b', text, re.IGNORECASE).
WholeWord(keyword, text) == keyword \in text

\* The members of a list, as a set.
Range(list) == {list[i] : i \in 1..Len(list)}

\* _calculate_relevance: the keywords "that get bonus points".
priority_keywords ==
    <<"real estate", "housing", "property", "land", "mortgage", "rent",
      "developer", "construction", "residential", "commercial", "apartment">>

\* _calculate_relevance: the keyword categories.
categories ==
    [property |-> {"real estate", "housing", "rent", "property", "land",
                   "mortgage", "landlord", "tenant"},
     economy |-> {"inflation", "naira", "economy", "cbn", "subsidy", "fuel"},
     utilities |-> {"power", "gas", "electricity", "nepa"},
     location |-> {"lagos", "abuja", "nigeria"}]

\* The base score without its cap.
BaseScore_Uncapped(match_count) == match_count * 10

\* base_score = min(len(matched_keywords) * 10, 60)
BaseScore(match_count) == Min(match_count * 10, 60)

\* The final score reduced modulo 100 instead of capped.
FinalScore_Modulo(total) == total % 100

\* final_score = min(base_score + priority_bonus + category_bonus, 100)
FinalScore(total) == Min(total, 100)

\* _calculate_relevance: (score, matched_keywords) for a text.
_calculate_relevance(text) ==
    LET matched_keywords ==
            SelectSeq(NIGERIAN_KEYWORDS, LAMBDA keyword : WholeWord(keyword, text))
        priority_matches ==
            SelectSeq(matched_keywords, LAMBDA kw : kw \in Range(priority_keywords))
        categories_hit ==
            Cardinality({c \in DOMAIN categories :
                            \E kw \in categories[c] : kw \in Range(matched_keywords)})
    IN IF matched_keywords = <<>>
       THEN [score |-> 0, matched_keywords |-> <<>>]
       ELSE [score |-> FinalScore(BaseScore(Len(matched_keywords))
                                  + Len(priority_matches) * 15
                                  + categories_hit * 5),
             matched_keywords |-> matched_keywords]

\* _calculate_virality for an engagement and an age in whole hours.  The
\* score is a fraction, kept exactly as num / den:
\*   velocity = total_engagement / max(age_hours, 1)
\*   min(velocity, 100) * max(0, 1 - age_hours / 24)
_calculate_virality(likes, shares, comments, age_hours) ==
    LET total_engagement == likes + shares + comments
        hours == IF age_hours >= 1 THEN age_hours ELSE 1
        \* min(velocity, 100), times hours
        capped == Min(total_engagement, 100 * hours)
        \* time_factor, times 24
        time_factor == IF 24 - age_hours >= 0 THEN 24 - age_hours ELSE 0
    IN IF total_engagement = 0
       THEN [num |-> 0, den |-> 1]
       ELSE [num |-> capped * time_factor, den |-> hours * 24]

\* _calculate_macro_impact: the indicator terms.
high_impact_terms ==
    <<"policy", "government", "cbn", "central bank", "regulation", "subsidy",
      "interest rate", "mortgage rate", "housing crisis", "rent control",
      "land reform", "tax", "budget">>

\* _calculate_macro_impact for a text and its matched keywords.
_calculate_macro_impact(text, keyword_matches) ==
    LET impact_score ==
            20 * Len(SelectSeq(high_impact_terms, LAMBDA term : InText(term, text)))
        has_property ==
            \E kw \in {"real estate", "housing", "rent", "property", "land"} :
                kw \in Range(keyword_matches)
        has_policy ==
            \E term \in {"policy", "government", "regulation", "law"} :
                InText(term, text)
    IN Min(impact_score + (IF has_property /\ has_policy THEN 30 ELSE 0), 100)

\* The avoid keywords looked up as whole words.
AvoidMatches_WholeWord(text) ==
    SelectSeq(AVOID_KEYWORDS, LAMBDA keyword : WholeWord(keyword, text))

\* _classify_risk: "for keyword in avoid_keywords: if keyword in text".
AvoidMatches(text) ==
    SelectSeq(AVOID_KEYWORDS, LAMBDA keyword : InText(keyword, text))

\* The sensitive keywords looked up anywhere in the text.
SensitiveFlags_Substring(text) ==
    SelectSeq(SENSITIVE_KEYWORDS, LAMBDA keyword : InText(keyword, text))

\* _classify_risk: the sensitive keywords found as whole words.
SensitiveFlags(text) ==
    SelectSeq(SENSITIVE_KEYWORDS, LAMBDA keyword : WholeWord(keyword, text))

\* _classify_risk: (risk_level, flags) for a text; the loop over the avoid
\* keywords returns at its first match.
_classify_risk(text) ==
    LET sensitive_flags == SensitiveFlags(text)
    IN IF AvoidMatches(text) # <<>>
       THEN [risk_level |-> AVOID, sensitive_flags |-> <<AvoidMatches(text)[1]>>]
       ELSE IF Len(sensitive_flags) >= 3
       THEN [risk_level |-> AVOID, sensitive_flags |-> sensitive_flags]
       ELSE IF Len(sensitive_flags) >= 1
       THEN [risk_level |-> SENSITIVE, sensitive_flags |-> sensitive_flags]
       ELSE [risk_level |-> SAFE, sensitive_flags |-> <<>>]

\* The filter with a strict comparison.
PassesFilter_AboveThreshold(relevance_score, risk_level) ==
    relevance_score > RELEVANCE_THRESHOLD /\ risk_level # AVOID

\* The filter with the risk tier left out.
PassesFilter_IgnoresRisk(relevance_score, risk_level) ==
    relevance_score >= RELEVANCE_THRESHOLD /\ risk_level \in {SAFE, SENSITIVE, AVOID}

\* score_trend: "determine if trend passes filter".
PassesFilter(relevance_score, risk_level) ==
    relevance_score >= RELEVANCE_THRESHOLD /\ risk_level # AVOID

\* The texts of the delivered records: the record with external id i carries
\* text i (mod the number of texts).
ItemTexts ==
    <<{"housing", "policy", "naira", "power", "lagos", "government"},
      {"rent", "lagos", "power"},
      {"housing", "rent", "lagos", "explicit"},
      {"land", "lagos"}>>

\* f"{trend.title or ''} {trend.text}".lower() of an item.
full_text(trend) ==
    ItemTexts[((trend.source_id[2] - 1) % Len(ItemTexts)) + 1]

\* What score_trend computes from a text alone, for each of the texts.
TextScores ==
    [text \in Range(ItemTexts) |->
        [relevance |-> _calculate_relevance(text),
         macro_impact_score |->
             _calculate_macro_impact(text, _calculate_relevance(text).matched_keywords),
         risk |-> _classify_risk(text)]]

\* score_trend: the Score row built for an item from its text, its
\* engagement and its age.
score_trend(trend_id) ==
    LET trend == trends[trend_id]
        scores == TextScores[full_text(trend)]
        virality == _calculate_virality(trend.likes, 0, 0, now - trend.timestamp)
    IN [trend_id |-> trend_id,
        relevance_score |-> scores.relevance.score,
        risk_level |-> scores.risk.risk_level,
        virality_score |-> virality.num \div virality.den,
        keyword_matches |-> Range(scores.relevance.matched_keywords),
        macro_impact_score |-> scores.macro_impact_score,
        passed_filter |-> PassesFilter(scores.relevance.score,
                                       scores.risk.risk_level)]

\* Ids of the rows with processed == False.
Unprocessed == {i \in 1..Len(trends) : ~trends[i].processed}

\* .limit(MAX_TRENDS_PER_CYCLE).all(): the query has no ORDER BY, so the
\* store returns any MAX_TRENDS_PER_CYCLE of the rows (all, if fewer).
Batches ==
    {b \in SUBSET Unprocessed :
        Cardinality(b) = Min(MAX_TRENDS_PER_CYCLE, Cardinality(Unprocessed))}

\* The rows of a batch, by id.
RECURSIVE ById(_)
ById(ids) ==
    IF ids = {} THEN <<>>
    ELSE LET least == CHOOSE i \in ids : \A j \in ids : i <= j
         IN <<least>> \o ById(ids \ {least})

\* score_unprocessed_trends up to the commit: the query and the loop, which
\* adds a Score per row and sets its flag, all inside the session.
score_unprocessed_trends(w) ==
    /\ pc[w] = "idle"
    /\ \E batch \in Batches :
        IF batch = {}
        THEN /\ resp' = [op |-> "score", by |-> w, status |-> "success",
                         count |-> 0]
             /\ UNCHANGED <<pc, sess>>
        ELSE /\ pc' = [pc EXCEPT ![w] = "score"]
             /\ sess' = [sess EXCEPT ![w] =
                    [IdleSession EXCEPT
                        !.selected = ById(batch),
                        !.pending = [k \in 1..Cardinality(batch) |->
                                        score_trend(ById(batch)[k])],
                        !.count = Cardinality(batch)]]
             /\ UNCHANGED resp
    /\ UNCHANGED <<trends, scored_trends, content_drafts, configurations,
                   audit_logs, now>>

\* The table without its unique index: every insert is accepted.
UniqueTrendIds_NoIndex(rows) == \A i \in 1..Len(rows) : rows[i].trend_id > 0

\* The unique index on scored_trends.trend_id accepts the session's rows.
UniqueTrendIds(rows) ==
    /\ \A i, j \in 1..Len(rows) : i # j => rows[i].trend_id # rows[j].trend_id
    /\ \A i \in 1..Len(rows), k \in 1..Len(scored_trends) :
          rows[i].trend_id # scored_trends[k].trend_id

\* self.db.commit() of score_unprocessed_trends: the Scores and the flags in
\* one transaction.  An IntegrityError is not caught here: the transaction
\* is lost and the caller gets the exception.
score_commit(w) ==
    /\ pc[w] = "score"
    /\ IF UniqueTrendIds(sess[w].pending)
       THEN /\ scored_trends' = scored_trends \o sess[w].pending
            /\ trends' = [i \in 1..Len(trends) |->
                   IF \E k \in 1..Len(sess[w].selected) : sess[w].selected[k] = i
                   THEN [trends[i] EXCEPT !.processed = TRUE]
                   ELSE trends[i]]
            /\ resp' = [op |-> "score", by |-> w, status |-> "success",
                        count |-> sess[w].count]
       ELSE /\ UNCHANGED <<trends, scored_trends>>
            /\ resp' = [op |-> "score", by |-> w, status |-> "error",
                        count |-> 0]
    /\ pc' = [pc EXCEPT ![w] = "idle"]
    /\ sess' = [sess EXCEPT ![w] = IdleSession]
    /\ UNCHANGED <<content_drafts, configurations, audit_logs, now>>

\* source_id of the k-th sample of the seeding script ("test_trend_k").
SampleSourceId(k) == <<"test_trend", k>>

\* The rows of seed_sample_trends for the samples not yet in the store: the
\* item (processed is not given, so it takes the column default) and its
\* Score, whose trend_id is the id the flush gave the item.
RECURSIVE SampleRows(_, _)
SampleRows(k, first_id) ==
    IF k > NumSamples THEN <<>>
    ELSE IF Existing(SampleSourceId(k)) THEN SampleRows(k + 1, first_id)
    ELSE <<[trend |-> [Trend("google_news", k, 245, FALSE)
                          EXCEPT !.source_id = SampleSourceId(k),
                                 !.timestamp = now - 2],
            scored_trend |-> ScoredTrend(first_id, ScoreProfiles[1])]>>
         \o SampleRows(k + 1, first_id + 1)

\* scripts/seed_test_data.py: seed_sample_trends, one transaction.
seed_sample_trends ==
    /\ LET rows == SampleRows(1, Len(trends) + 1)
       IN /\ trends' = trends \o [k \in 1..Len(rows) |-> rows[k].trend]
          /\ scored_trends' = scored_trends \o
                                [k \in 1..Len(rows) |-> rows[k].scored_trend]
          /\ resp' = [op |-> "seed", by |-> "script", status |-> "success",
                      count |-> Len(rows)]
    /\ UNCHANGED <<content_drafts, configurations, audit_logs, now, pc, sess>>

\* The store after ingestion: items of either source, not yet scored.
InitScore ==
    /\ \E sources \in [1..NumItems -> {"twitter", "google_news"}] :
          trends = [i \in 1..NumItems |-> Trend(sources[i], i, 0, FALSE)]
    /\ scored_trends = <<>>
    /\ content_drafts = <<>>
    /\ configurations = <<>>
    /\ audit_logs = <<>>
    /\ now = 0
    /\ EmptySessions

\* Scoring cycles run one after another; the seeding script may be run.
NextScoreSeq ==
    \/ AllIdle /\ seed_sample_trends
    \/ \E w \in Workers :
        \/ AllIdle /\ score_unprocessed_trends(w)
        \/ score_commit(w)

SpecScoreSeq == InitScore /\ [][NextScoreSeq]_vars

\* Scoring cycles of several pipeline instances (the scheduled job and
\* POST /trends/score) interleave.
NextScoreConc ==
    \/ seed_sample_trends
    \/ \E w \in Workers :
        \/ score_unprocessed_trends(w)
        \/ score_commit(w)

SpecScoreConc == InitScore /\ [][NextScoreConc]_vars

\* Scoring cycles keep being run, and a started cycle reaches its commit.
SpecScoreFair ==
    /\ InitScore
    /\ [][NextScoreSeq]_vars
    /\ WF_vars(\E w \in Workers : AllIdle /\ score_unprocessed_trends(w))
    /\ WF_vars(\E w \in Workers : score_commit(w))

(* ------------------- the scorer's computations, called ---------------- *)

\* Words of the texts given to _calculate_relevance and _calculate_macro_impact.
RelevanceWords ==
    {"real estate", "housing", "property", "land", "mortgage", "rent",
     "lagos", "abuja", "naira", "power", "gas", "policy", "landlord"}

\* Words of the texts given to _classify_risk.
RiskWords ==
    {"died", "protest", "riot", "kidnap", "protesters", "explicit",
     "explicitly", "nsfw", "xxx", "housing"}

\* Engagement counters and ages (hours between the item's timestamp and the
\* time of scoring; negative when the timestamp is ahead of the clock).
EngagementCounts == {0, 7, 100, 5000}
AgesInHours == {-12, 0, 1, 2, 23, 24, 48}

\* One call of _calculate_relevance, as score_trend makes it.
call_calculate_relevance ==
    /\ \E text \in SUBSET RelevanceWords :
          resp' = [op |-> "_calculate_relevance", text |-> text,
                   result |-> _calculate_relevance(text)]
    /\ UNCHANGED <<trends, scored_trends, content_drafts, configurations,
                   audit_logs, now, pc, sess>>

\* One call of _classify_risk.
call_classify_risk ==
    /\ \E text \in SUBSET RiskWords :
          resp' = [op |-> "_classify_risk", text |-> text,
                   result |-> _classify_risk(text)]
    /\ UNCHANGED <<trends, scored_trends, content_drafts, configurations,
                   audit_logs, now, pc, sess>>

\* One call of _calculate_virality.
call_calculate_virality ==
    /\ \E likes \in EngagementCounts, shares \in {0, 100}, comments \in {0, 7},
          age_hours \in AgesInHours :
          resp' = [op |-> "_calculate_virality",
                   total_engagement |-> likes + shares + comments,
                   age_hours |-> age_hours,
                   result |-> _calculate_virality(likes, shares, comments, age_hours)]
    /\ UNCHANGED <<trends, scored_trends, content_drafts, configurations,
                   audit_logs, now, pc, sess>>

InitScorer ==
    /\ trends = <<>>
    /\ scored_trends = <<>>
    /\ content_drafts = <<>>
    /\ configurations = <<>>
    /\ audit_logs = <<>>
    /\ now = 0
    /\ EmptySessions

\* One call, with any of the inputs.
NextScorer ==
    \/ resp.op = "none" /\ call_calculate_relevance
    \/ resp.op = "none" /\ call_classify_risk
    \/ resp.op = "none" /\ call_calculate_virality

SpecScorer == InitScorer /\ [][NextScorer]_vars

(* ----------------------- angle selection, called ---------------------- *)

\* Scores given to _select_angles: values around each rule's threshold.
AngleInputs ==
    [relevance_score : {0, 69, 70, 79, 80},
     macro_impact_score : {0, 49, 50, 59, 60},
     virality_score : {0, 49, 50},
     keyword_matches : {{}, {"lagos"}, {"rent", "lagos"}}]

\* One call of _select_angles.
call_select_angles ==
    /\ \E scored_trend \in AngleInputs :
          resp' = [op |-> "_select_angles", scored_trend |-> scored_trend,
                   result |-> _select_angles(scored_trend)]
    /\ UNCHANGED <<trends, scored_trends, content_drafts, configurations,
                   audit_logs, now, pc, sess>>

\* One call, with any of the inputs.
NextAngles == resp.op = "none" /\ call_select_angles

SpecAngles == InitScorer /\ [][NextAngles]_vars

(* ------------------------------ pipeline ------------------------------ *)

\* The store after an ingestion of news items: nothing scored yet.
InitPipeline ==
    /\ trends = [i \in 1..NumItems |-> Trend("google_news", i, 0, FALSE)]
    /\ scored_trends = <<>>
    /\ content_drafts = <<>>
    /\ configurations = <<>>
    /\ audit_logs = <<>>
    /\ now = 0
    /\ EmptySessions

\* run_ingestion_pipeline after its ingestion step, and the manual
\* triggers, one at a time: scoring cycles and generation cycles.
NextPipeline ==
    \E w \in Workers :
        \/ AllIdle /\ score_unprocessed_trends(w)
        \/ score_commit(w)
        \/ AllIdle /\ generate_no_model(w)
        \/ AllIdle /\ \E limit \in 0..MaxLimit : generate_content_for_top_trends(w, limit)
        \/ generate_content_for_trend(w)
        \/ generate_return(w)

SpecPipeline == InitPipeline /\ [][NextPipeline]_vars

\* run_ingestion_pipeline, run after run on one session at a time: the news
\* ingestion, then the scoring cycle, then the generation cycle with the
\* fixed limit; each stage starts when the one before it has returned, and
\* the next run when the generation stage has.
NextRun ==
    \E w \in Workers :
        \/ AllIdle /\ resp.op \in {"none", "generate"} /\ ingest_google_news(w)
        \/ \E record \in FeedEntries : ingest_record(w, record)
        \/ ingest_commit(w)
        \/ AllIdle /\ resp.op = "ingest" /\ score_unprocessed_trends(w)
        \/ score_commit(w)
        \/ /\ AllIdle
           /\ resp.op = "score" /\ resp.status = "success"
           /\ generate_content_for_top_trends(w, FixedLimit)
        \/ generate_content_for_trend(w)
        \/ generate_return(w)

SpecRun == InitIngest /\ [][NextRun]_vars

(* C1: after any sequence of generation cycles run one after another, with
   any of the generation calls failing, no two drafts share
   (scored_trend_id, platform, angle). *)
DraftKey(d) == <<d.scored_trend_id, d.platform, d.angle>>

C1_UniqueDraftsSequential ==
    \A i, j \in 1..Len(content_drafts) :
        i # j => DraftKey(content_drafts[i]) # DraftKey(content_drafts[j])

\* A second cycle has returned after two Scores were drafted, one of them
\* with a failed call.
C1_Witness ==
    /\ AllIdle
    /\ resp.op = "generate"
    /\ \E i, j \in 1..Len(content_drafts) :
         content_drafts[i].scored_trend_id # content_drafts[j].scored_trend_id
    /\ \E i \in 1..Len(scored_trends) :
         LET n == Cardinality({d \in 1..Len(content_drafts) :
                                 content_drafts[d].scored_trend_id = i})
         IN n > 0 /\ n < Len(_select_angles(scored_trends[i])) * Len(platforms)

(* C2: when two generation cycles run concurrently against the same store,
   no two drafts share (scored_trend_id, platform, angle). *)
C2_UniqueDraftsConcurrent ==
    \A i, j \in 1..Len(content_drafts) :
        i < j => DraftKey(content_drafts[i]) # DraftKey(content_drafts[j])

(* C3: rejected and published are terminal: once a draft's status is
   rejected or published, no approve, reject, edit or schedule action
   changes its status again. *)
C3_TerminalStatuses ==
    [][\A d \in 1..Len(content_drafts) :
          content_drafts[d].status \in {REJECTED, PUBLISHED}
              => content_drafts'[d].status = content_drafts[d].status]_vars

(* C4: an approve or reject action on a draft whose status is not pending
   is refused with an error, and the draft (its status and its approval and
   rejection metadata) is left unchanged. *)
C4_ApproveRejectOnlyFromPending ==
    [][\A request \in ApprovalRequests :
          ( /\ request.action \in {"approve", "reject"}
            /\ request.content_id \in 1..Len(content_drafts)
            /\ content_drafts[request.content_id].status # PENDING
            /\ approve_content(request) )
          => /\ resp'.code # 200
             /\ content_drafts' = content_drafts]_vars

(* C5: a draft whose status is scheduled or published was approved at some
   earlier point: drafts start out neither scheduled nor published, and a
   draft enters scheduled or published only from approved (or from the
   other of the two). *)
C5_ApprovedBeforeScheduled ==
    /\ \A d \in 1..Len(content_drafts) :
          content_drafts[d].status \notin {SCHEDULED, PUBLISHED}
    /\ [][\A d \in 1..Len(content_drafts') :
            content_drafts'[d].status \in {SCHEDULED, PUBLISHED}
                => /\ d <= Len(content_drafts)
                   /\ content_drafts[d].status \in {APPROVED, SCHEDULED, PUBLISHED}]_vars

\* A draft has been scheduled.
C5_Witness ==
    /\ resp.op = "schedule"
    /\ resp.code = 200
    /\ content_drafts[resp.id].status = SCHEDULED

(* C6: a schedule action on a draft whose status is not approved (rejected,
   pending, scheduled or published) fails with an error and leaves the
   draft's status and scheduled timestamp unchanged. *)
C6_ScheduleRefusedUnlessApproved ==
    [][\A request \in ScheduleRequests :
          ( /\ resp'.op = "schedule"
            /\ request.content_id \in 1..Len(content_drafts)
            /\ content_drafts[request.content_id].status # APPROVED
            /\ schedule_content(request) )
          => /\ resp'.op = "schedule"
             /\ resp'.code = 400
             /\ content_drafts' = content_drafts]_vars

\* A schedule request for a rejected draft has been refused.
C6_Witness ==
    /\ resp.op = "schedule"
    /\ resp.code = 400
    /\ resp.id \in 1..Len(content_drafts)
    /\ content_drafts[resp.id].status = REJECTED
    /\ content_drafts[resp.id].scheduled_for = NoneTime

(* C7: a draft moves to scheduled only with a timestamp strictly later than
   the current time: whenever a draft becomes scheduled, its scheduled
   timestamp is in the future at that moment. *)
C7_ScheduledInFuture ==
    [][\A d \in 1..Len(content_drafts) :
          ( /\ content_drafts'[d].status = SCHEDULED
            /\ content_drafts[d].status # SCHEDULED )
          => /\ content_drafts'[d].scheduled_for # NoneTime
             /\ content_drafts'[d].scheduled_for[1] > now]_vars

(* C8: a reject action without a reason is refused; every draft in status
   rejected has a non-empty rejection reason. *)
C8_RejectedHasReason ==
    \A d \in 1..Len(content_drafts) :
        content_drafts[d].status = REJECTED
            => Truthy(content_drafts[d].rejection_reason)

(* C9: every successful approval, rejection, edit and configuration change
   appends one audit entry naming the action, the entity and the actor. *)
AuditAction(request_action) ==
    CASE request_action = "approve" -> "content_approved"
      [] request_action = "reject" -> "content_rejected"
      [] request_action = "edit" -> "content_edited"
      [] OTHER -> "none"

C9_EveryChangeAudited ==
    [][/\ \A request \in ApprovalRequests :
            (approve_content(request) /\ resp'.code = 200)
            => /\ Len(audit_logs') = Len(audit_logs) + 1
               /\ audit_logs'[Len(audit_logs')].action = AuditAction(request.action)
               /\ audit_logs'[Len(audit_logs')].entity_type = "content_draft"
               /\ audit_logs'[Len(audit_logs')].entity_id = request.content_id
               /\ audit_logs'[Len(audit_logs')].user_email = request.approved_by
       /\ \A w \in Workers :
            (update_config_log(w) /\ resp'.code = 200)
            => /\ Len(audit_logs') = Len(audit_logs) + 1
               /\ audit_logs'[Len(audit_logs')].action = "config_updated"
               /\ audit_logs'[Len(audit_logs')].entity_type = "configuration"
               /\ audit_logs'[Len(audit_logs')].user_email
                    = configurations[resp'.id].updated_by]_vars

(* C10: submitting a record whose external identifier already belongs to a
   persisted item is a no-op: the record is skipped (nothing is added to
   the session and it is not counted), no persisted item is changed or
   duplicated, and no score or draft is created. *)
Persisted(source, external_id) ==
    \E i \in 1..Len(trends) : trends[i].source_id = <<source, external_id>>

C10_ResubmitIsNoOp ==
    [][/\ \A w \in Workers, record \in Tweets \cup FeedEntries :
            ( /\ pc[w] = "ingest"
              /\ Persisted(sess[w].source, record.id)
              /\ ingest_record(w, record) )
            => /\ sess'[w].pending = sess[w].pending
               /\ sess'[w].count = sess[w].count
               /\ trends' = trends
       /\ Len(trends') >= Len(trends)
       /\ \A i \in 1..Len(trends) : trends'[i] = trends[i]
       /\ \A j \in (Len(trends) + 1)..Len(trends') :
              ~Persisted(trends'[j].source, trends'[j].source_id[2])
       /\ scored_trends' = scored_trends
       /\ content_drafts' = content_drafts]_vars

\* A run has just skipped a tweet whose identifier is persisted, with other
\* engagement counts than the tweet carries.
C10_Witness ==
    \E w \in Workers :
        /\ pc[w] = "ingest"
        /\ sess[w].seen = 1
        /\ sess[w].pending = <<>>
        /\ \E i \in 1..Len(trends) :
              /\ trends[i].source_id = <<sess[w].source, sess[w].record.id>>
              /\ trends[i].likes # sess[w].record.likes

(* C11: when ingestion runs interleave (two runs may both pass the existence
   check for the same identifier before either commits), at most one item
   with a given source_id is ever persisted. *)
C11_OneItemPerIdentifier ==
    \A i, j \in 1..Len(trends) :
        i # j => trends[i].source_id # trends[j].source_id

\* Two runs had both passed the existence check for the same identifier; one
\* has committed its item and the other's commit has been refused.
C11_Witness ==
    /\ resp.op = "ingest"
    /\ resp.status = "rolled back"
    /\ \E w \in Workers :
          /\ w # resp.by
          /\ pc[w] = "idle"
    /\ Len(trends) = 1

(* C12: a uniqueness conflict during an ingestion run is an idempotent skip
   of that one record: when the run ends, every new record it added is
   persisted (once) and the run does not report the failure. *)
C12_ConflictSkipsOneRecord ==
    [][\A w \in Workers :
          ingest_commit(w)
          => /\ resp'.status = "committed"
             /\ \A k \in 1..Len(sess[w].pending) :
                   \E i \in 1..Len(trends') :
                       trends'[i].source_id = sess[w].pending[k].source_id]_vars

(* C13: after a scoring cycle every item has exactly one Score, and a cycle
   changes no Score that existed before it. *)
NumScoresOf(rows, trend_id) ==
    Cardinality({k \in 1..Len(rows) : rows[k].trend_id = trend_id})

C13_OneScoreAfterCycle ==
    [][\A w \in Workers :
          (score_commit(w) \/ (resp'.op = "score" /\ score_unprocessed_trends(w)))
          => /\ \A i \in 1..Len(trends') : NumScoresOf(scored_trends', i) = 1
             /\ \A k \in 1..Len(scored_trends) :
                   scored_trends'[k] = scored_trends[k]]_vars

(* C14: in every committed state an item has processed = TRUE if and only
   if exactly one Score row exists for it. *)
C14_FlagIffScore ==
    \A i \in 1..Len(trends) :
        trends[i].processed <=> NumScoresOf(scored_trends, i) = 1

(* C15: when scoring cycles interleave and select the same unscored items,
   no item ends up with two Scores and no item ends up with
   processed = TRUE and no Score. *)
C15_NoDoubleScoreConcurrent ==
    \A i \in 1..Len(trends) :
        /\ NumScoresOf(scored_trends, i) <= 1
        /\ trends[i].processed => NumScoresOf(scored_trends, i) = 1

\* Two cycles had selected the same items; one committed, the other's commit
\* has been refused, and every item is scored once.
C15_Witness ==
    /\ resp.op = "score"
    /\ resp.status = "error"
    /\ Len(trends) > 0
    /\ \A i \in 1..Len(trends) :
          trends[i].processed /\ NumScoresOf(scored_trends, i) = 1

(* C16: if scoring cycles keep being run, every persisted item eventually
   has processed = TRUE and a Score. *)
C16_EveryItemEventuallyScored ==
    \A i \in 1..(NumItems + NumSamples) :
        (i <= Len(trends))
            ~> (/\ i <= Len(trends)
                /\ trends[i].processed
                /\ NumScoresOf(scored_trends, i) = 1)

(* C17: generation is idempotent on re-run: a cycle creates no draft for a
   Score that an earlier cycle already drafted, so re-running over the same
   Scores leaves their draft counts as they were. *)
NumDraftsFor(rows, scored_trend_id) ==
    Cardinality({d \in 1..Len(rows) : rows[d].scored_trend_id = scored_trend_id})

C17_RerunCreatesNothing ==
    [][\A i \in 1..Len(scored_trends) :
          NumDraftsFor(content_drafts, i) > 0
              => NumDraftsFor(content_drafts', i)
                     = NumDraftsFor(content_drafts, i)]_vars

\* A cycle run over a store whose eligible Scores are all drafted has
\* returned zero.
C17_Witness ==
    /\ AllIdle
    /\ resp.op = "generate"
    /\ resp.count = 0
    /\ \E i \in 1..Len(scored_trends) : scored_trends[i].passed_filter
    /\ \A i \in 1..Len(scored_trends) :
          scored_trends[i].passed_filter => NumDraftsFor(content_drafts, i) > 0

(* C18: generation is resumable: a Score left with ungenerated
   (angle, platform) combinations is selected again by a later cycle, so
   that the combinations can still be generated. *)
MissingPairs(scored_trend_id) ==
    LET pairs == AnglePlatformPairs(_select_angles(scored_trends[scored_trend_id]))
    IN {k \in 1..Len(pairs) :
          \A d \in 1..Len(content_drafts) :
              DraftKey(content_drafts[d])
                  # <<scored_trend_id, pairs[k].platform, pairs[k].angle>>}

C18_UngeneratedStaysSelectable ==
    AllIdle =>
        \A i \in 1..Len(scored_trends) :
            (scored_trends[i].passed_filter /\ MissingPairs(i) # {})
                => i \in DraftlessEligible

(* C19: within a cycle the failure of one generation call does not abort the
   batch: every other (angle, platform) pair of the Score yields exactly one
   persisted draft, and the cycle goes on to the other selected Scores. *)
C19_FailureDoesNotAbort ==
    [][\A w \in Workers :
          (pc[w] = "generate" /\ sess[w].selected # <<>>)
          => LET id == Head(sess[w].selected)
                 pairs == AnglePlatformPairs(_select_angles(scored_trends[id]))
             IN \A failed \in CallOutcomes(Len(pairs)) :
                  ( /\ sess'[w].selected = Tail(sess[w].selected)
                    /\ generate_calls(w, failed) )
                  => /\ \A k \in 1..Len(pairs) :
                          k \notin failed =>
                            Cardinality({d \in 1..Len(content_drafts') :
                                DraftKey(content_drafts'[d])
                                  = <<id, pairs[k].platform, pairs[k].angle>>}) = 1
                     /\ pc'[w] = "generate"]_vars

\* A Score whose first call failed has the drafts of its later calls, and a
\* second Score of the same batch has been drafted after it.
C19_Witness ==
    \E i, j \in 1..Len(scored_trends) :
        /\ i # j
        /\ 1 \in MissingPairs(i)
        /\ Cardinality(MissingPairs(i)) = 1
        /\ NumDraftsFor(content_drafts, j) > 0
        /\ \E d \in 1..Len(content_drafts) :
              /\ content_drafts[d].scored_trend_id = i
              /\ \E e \in (d + 1)..Len(content_drafts) :
                    content_drafts[e].scored_trend_id = j

(* C20: no draft is ever created for a Score that is not eligible: each
   draft's Score has passed_filter = TRUE, relevance at or above the
   threshold and a risk tier other than avoid. *)
C20_DraftsOnlyForEligible ==
    \A d \in 1..Len(content_drafts) :
        LET scored_trend == scored_trends[content_drafts[d].scored_trend_id]
        IN /\ scored_trend.passed_filter
           /\ scored_trend.relevance_score >= RELEVANCE_THRESHOLD
           /\ scored_trend.risk_level # AVOID

\* Every eligible Score is drafted, and a Score of tier avoid with relevance
\* above the threshold has no draft.
C20_Witness ==
    /\ AllIdle
    /\ content_drafts # <<>>
    /\ DraftlessEligible = {}
    /\ \E i \in 1..Len(scored_trends) :
          /\ scored_trends[i].risk_level = AVOID
          /\ scored_trends[i].relevance_score >= RELEVANCE_THRESHOLD
          /\ NumDraftsFor(content_drafts, i) = 0

(* C21: every Score the scorer writes has passed_filter true exactly when
   its relevance is at least RELEVANCE_THRESHOLD and its risk tier is not
   avoid. *)
C21_EligibleIffThresholdAndRisk ==
    \A i \in 1..Len(scored_trends) :
        scored_trends[i].passed_filter <=>
            (~(scored_trends[i].relevance_score < RELEVANCE_THRESHOLD)
             /\ scored_trends[i].risk_level \in {SAFE, SENSITIVE})

\* The scorer has written a Score exactly at the threshold, which passes, and
\* one above the threshold of tier avoid, which does not.
C21_Witness ==
    /\ \E i \in 1..Len(scored_trends) :
          /\ scored_trends[i].relevance_score = RELEVANCE_THRESHOLD
          /\ scored_trends[i].passed_filter
    /\ \E i \in 1..Len(scored_trends) :
          /\ scored_trends[i].relevance_score > RELEVANCE_THRESHOLD
          /\ scored_trends[i].risk_level = AVOID
          /\ ~scored_trends[i].passed_filter

(* C22: a text in which an avoid keyword occurs is classified avoid,
   whatever else it contains, and its only flag is the first avoid keyword,
   in the configured order, that occurs in it. *)
C22_AvoidKeywordWins ==
    (resp.op = "_classify_risk"
     /\ \E k \in 1..Len(AVOID_KEYWORDS) : InText(AVOID_KEYWORDS[k], resp.text))
    => /\ resp.result.risk_level = AVOID
       /\ Len(resp.result.sensitive_flags) = 1
       /\ \E k \in 1..Len(AVOID_KEYWORDS) :
             /\ resp.result.sensitive_flags[1] = AVOID_KEYWORDS[k]
             /\ InText(AVOID_KEYWORDS[k], resp.text)
             /\ \A j \in 1..(k - 1) : ~InText(AVOID_KEYWORDS[j], resp.text)

\* A text with two avoid keywords (one inside a longer word), a sensitive
\* keyword and a relevance keyword has been classified.
C22_Witness ==
    /\ resp.op = "_classify_risk"
    /\ resp.text = {"explicitly", "nsfw", "died", "housing"}
    /\ resp.result.sensitive_flags = <<"explicit">>

(* C23: for a text in which no avoid keyword occurs, the tier follows the
   number n of sensitive keywords that are words of the text: avoid for
   n >= 3, sensitive for n in {1, 2}, safe with no flag for n = 0. *)
C23_TierBySensitiveCount ==
    (resp.op = "_classify_risk"
     /\ \A k \in 1..Len(AVOID_KEYWORDS) : ~InText(AVOID_KEYWORDS[k], resp.text))
    => LET n == Cardinality({k \in 1..Len(SENSITIVE_KEYWORDS) :
                                SENSITIVE_KEYWORDS[k] \in resp.text})
       IN /\ n >= 3 => resp.result.risk_level = AVOID
          /\ n \in {1, 2} => resp.result.risk_level = SENSITIVE
          /\ n = 0 => /\ resp.result.risk_level = SAFE
                      /\ resp.result.sensitive_flags = <<>>

\* A text without avoid keyword whose only sensitive term is inside a longer
\* word has been classified safe.
C23_Witness ==
    /\ resp.op = "_classify_risk"
    /\ resp.text = {"protesters", "housing"}
    /\ resp.result.risk_level = SAFE

(* C24: for the set M of primary keywords matched in a text, relevance is
   min(min(10 |M|, 60) + 15 |M in the priority subset| + 5 (categories with
   a match), 100); it is 0 with no match, when the match list is empty; it
   lies in 0..100. *)
C24_RelevanceFormula ==
    resp.op = "_calculate_relevance" =>
        LET M == {k \in 1..Len(NIGERIAN_KEYWORDS) :
                     NIGERIAN_KEYWORDS[k] \in resp.text}
            Matched == {NIGERIAN_KEYWORDS[k] : k \in M}
            n == Cardinality(M)
            p == Cardinality({k \in 1..Len(priority_keywords) :
                                 priority_keywords[k] \in Matched})
            c == Cardinality({cat \in DOMAIN categories :
                                 categories[cat] \cap Matched # {}})
            base == IF 10 * n > 60 THEN 60 ELSE 10 * n
            sum == base + 15 * p + 5 * c
        IN /\ resp.result.score = IF sum > 100 THEN 100 ELSE sum
           /\ n = 0 => /\ resp.result.score = 0
                       /\ resp.result.matched_keywords = <<>>
           /\ resp.result.score \in 0..100
           /\ {resp.result.matched_keywords[k] :
                  k \in 1..Len(resp.result.matched_keywords)} = Matched

\* A text with seven matches outside the priority subset, in four categories,
\* has scored 60 + 0 + 20.
C24_Witness ==
    /\ resp.op = "_calculate_relevance"
    /\ resp.text = {"lagos", "abuja", "naira", "power", "gas", "policy", "landlord"}
    /\ resp.result.score = 80

(* C25: adding a priority keyword that a text lacks never lowers its
   relevance. *)
C25_RelevanceMonotonic ==
    resp.op = "_calculate_relevance" =>
        \A k \in 1..Len(priority_keywords) :
            priority_keywords[k] \notin resp.text =>
                _calculate_relevance(resp.text \cup {priority_keywords[k]}).score
                    >= resp.result.score

\* A text of relevance 95 that lacks a priority keyword has been scored.
C25_Witness ==
    /\ resp.op = "_calculate_relevance"
    /\ resp.result.score = 95
    /\ "mortgage" \notin resp.text

(* C26: the virality of every item lies in [0, 100], also for very large
   counters and for a timestamp later than the time of scoring; it is 0 when
   likes + shares + comments is 0 and 0 at an age of 24 hours or more. *)
C26_ViralityInRange ==
    resp.op = "_calculate_virality" =>
        /\ resp.result.num >= 0
        /\ resp.result.num <= 100 * resp.result.den
        /\ resp.total_engagement = 0 => resp.result.num = 0
        /\ resp.age_hours >= 24 => resp.result.num = 0

(* C27: _select_angles tries its rules in the order explainer, investor,
   property, data_backed, contrarian and returns the first three angles that
   fired, in that order, or [explainer] when none fired; the list is never
   empty, never longer than 3 and never repeats an angle. *)
RuleOrder == <<EXPLAINER, INVESTOR, PROPERTY, DATA_BACKED, CONTRARIAN>>

Fired(scored_trend) ==
    {r \in 1..5 :
        \/ r = 1 /\ scored_trend.relevance_score >= 70
        \/ r = 2 /\ scored_trend.macro_impact_score >= 50
        \/ r = 3 /\ \E kw \in scored_trend.keyword_matches : kw \in property_keywords
        \/ r = 4 /\ scored_trend.virality_score >= 50
        \/ r = 5 /\ scored_trend.relevance_score >= 80
                 /\ scored_trend.macro_impact_score >= 60}

C27_FirstThreeFiredInOrder ==
    resp.op = "_select_angles" =>
        LET fired == Fired(resp.scored_trend)
            \* the rules that fired and have fewer than three fired before them
            kept == {r \in fired : Cardinality({q \in fired : q < r}) < 3}
            angles == resp.result
        IN /\ Len(angles) \in 1..3
           /\ \A i, j \in 1..Len(angles) : i # j => angles[i] # angles[j]
           /\ fired = {} => angles = <<EXPLAINER>>
           /\ fired # {} =>
                /\ Len(angles) = Cardinality(kept)
                /\ \A i \in 1..Len(angles) :
                      \E r \in kept :
                          /\ angles[i] = RuleOrder[r]
                          /\ Cardinality({q \in kept : q < r}) = i - 1

\* All five rules fired: the first three are returned.
C27_Witness ==
    /\ resp.op = "_select_angles"
    /\ resp.scored_trend.relevance_score = 80
    /\ resp.scored_trend.macro_impact_score = 60
    /\ resp.scored_trend.virality_score = 50
    /\ resp.result = <<EXPLAINER, INVESTOR, PROPERTY>>

(* C28: a generation cycle with limit L selects at most L Scores, each
   eligible and without a draft when selected, in descending relevance: no
   eligible draft-less Score left out has a strictly higher relevance than a
   selected one. *)
C28_SelectsTopEligible ==
    [][\A w \in Workers, limit \in 0..MaxLimit :
          (pc[w] = "idle" /\ generate_content_for_top_trends(w, limit)) =>
              LET selected == IF pc'[w] = "generate" THEN sess'[w].selected
                              ELSE <<>>
                  chosen == {selected[k] : k \in 1..Len(selected)}
                  Draftless(i) == \A d \in 1..Len(content_drafts) :
                                      content_drafts[d].scored_trend_id # i
              IN /\ Len(selected) <= limit
                 /\ Cardinality(chosen) = Len(selected)
                 /\ \A i \in chosen :
                       /\ i \in 1..Len(scored_trends)
                       /\ scored_trends[i].passed_filter
                       /\ Draftless(i)
                 /\ \A j, k \in 1..Len(selected) : j < k =>
                       scored_trends[selected[j]].relevance_score
                         >= scored_trends[selected[k]].relevance_score
                 /\ \A i \in 1..Len(scored_trends), k \in chosen :
                       (i \notin chosen /\ scored_trends[i].passed_filter
                        /\ Draftless(i))
                       => ~(scored_trends[i].relevance_score
                              > scored_trends[k].relevance_score)]_vars

\* A cycle has just selected one Score and left out an eligible draft-less
\* Score of lower relevance.
C28_Witness ==
    \E w \in Workers :
        /\ pc[w] = "generate"
        /\ Len(sess[w].selected) = 1
        /\ sess[w].count = 0
        /\ \E i \in 1..Len(scored_trends) :
              /\ scored_trends[i].passed_filter
              /\ \A d \in 1..Len(content_drafts) :
                    content_drafts[d].scored_trend_id # i
              /\ scored_trends[i].relevance_score
                   < scored_trends[sess[w].selected[1]].relevance_score

(* C29: every draft is created with status pending; a cycle with limit 1
   selects at most one Score, and the drafts created for a Score are at most
   12, one per (angle, platform) pair. *)
C29_PendingAndAtMostTwelve ==
    [][/\ \A w \in Workers :
            (pc[w] = "idle" /\ generate_content_for_top_trends(w, 1)) =>
                (pc'[w] = "generate" => Len(sess'[w].selected) = 1)
       /\ \A w \in Workers :
            (pc[w] = "generate" /\ generate_content_for_trend(w)) =>
                LET created == SubSeq(content_drafts', Len(content_drafts) + 1,
                                      Len(content_drafts'))
                IN /\ Len(created) <= 12
                   /\ \A k \in 1..Len(created) :
                         /\ created[k].status = PENDING
                         /\ created[k].scored_trend_id = Head(sess[w].selected)
                   /\ \A j, k \in 1..Len(created) : j # k =>
                         <<created[j].angle, created[j].platform>>
                           # <<created[k].angle, created[k].platform>>
       /\ Len(content_drafts') >= Len(content_drafts) =>
            \A k \in (Len(content_drafts) + 1)..Len(content_drafts') :
                content_drafts'[k].status = PENDING]_vars

\* A cycle has returned after creating 12 drafts, all the drafts there are.
C29_Witness ==
    /\ resp.op = "generate"
    /\ resp.count = 12
    /\ Len(content_drafts) = 12
    /\ \A k \in 1..12 : content_drafts[k].scored_trend_id = content_drafts[1].scored_trend_id

(* C30: an edit sets the draft's edited body, edit time and editing actor and
   leaves its status, generated body, approver and rejection reason (and
   every other draft) as they were, whatever the draft's status. *)
C30_EditFrame ==
    [][resp'.op = "edit" =>
          \A content_id \in 1..Len(content_drafts),
             edited_content \in EditedContents \ {None, ""},
             approved_by \in Actors :
              approve_content([content_id |-> content_id, action |-> "edit",
                               edited_content |-> edited_content,
                               rejection_reason |-> None,
                               approved_by |-> approved_by]) =>
                  LET before == content_drafts[content_id]
                      after == content_drafts'[content_id]
                  IN /\ after.edited_content = edited_content
                     /\ after.edited_at = <<now>>
                     /\ after.edited_by = approved_by
                     /\ after.status = before.status
                     /\ after.content = before.content
                     /\ after.approved_by = before.approved_by
                     /\ after.rejection_reason = before.rejection_reason
                     /\ after.scheduled_for = before.scheduled_for
                     /\ Len(content_drafts') = Len(content_drafts)
                     /\ \A i \in 1..Len(content_drafts) :
                           i # content_id => content_drafts'[i] = content_drafts[i]
                     /\ audit_logs' = audit_logs]_vars

\* A rejected draft has been edited: it is still rejected, with its reason.
C30_Witness ==
    /\ resp.op = "edit"
    /\ resp.code = 200
    /\ resp.id \in 1..Len(content_drafts)
    /\ content_drafts[resp.id].status = REJECTED
    /\ content_drafts[resp.id].rejection_reason = "off-brand"
    /\ content_drafts[resp.id].edited_content = "edited"
    /\ content_drafts[resp.id].edited_by # None

(* C31: an edit is available only on pending and approved drafts: an edit
   request on a rejected, scheduled or published draft is refused and leaves
   the draft's edited body as it was. *)
C31_EditOnlyPendingOrApproved ==
    [][resp'.op = "edit" =>
          \A content_id \in 1..Len(content_drafts),
             edited_content \in EditedContents, approved_by \in Actors :
              (/\ content_drafts[content_id].status \in {REJECTED, SCHEDULED, PUBLISHED}
               /\ approve_content([content_id |-> content_id, action |-> "edit",
                                   edited_content |-> edited_content,
                                   rejection_reason |-> None,
                                   approved_by |-> approved_by]))
              => /\ resp'.code # 200
                 /\ content_drafts'[content_id].edited_content
                      = content_drafts[content_id].edited_content]_vars

(* C35: a publish request on a scheduled or approved draft is accepted and
   moves the draft to published; a draft becomes published only from
   scheduled or approved. *)
C35_PublishAccepted ==
    [][/\ resp'.op = "publish" =>
            \A content_id \in 1..Len(content_drafts), approved_by \in Actors :
                (/\ content_drafts[content_id].status \in {SCHEDULED, APPROVED}
                 /\ approve_content([content_id |-> content_id, action |-> "publish",
                                     edited_content |-> None,
                                     rejection_reason |-> None,
                                     approved_by |-> approved_by]))
                => /\ resp'.code = 200
                   /\ content_drafts'[content_id].status = PUBLISHED
       /\ \A d \in 1..Len(content_drafts) :
            (content_drafts'[d].status = PUBLISHED
             /\ content_drafts[d].status # PUBLISHED)
            => content_drafts[d].status \in {SCHEDULED, APPROVED}]_vars

(* C39: when the selected angles contain contrarian they are exactly
   [explainer, investor, contrarian], and neither the property rule nor the
   data_backed rule fired. *)
C39_ContrarianOnlyThird ==
    (resp.op = "_select_angles"
     /\ \E k \in 1..Len(resp.result) : resp.result[k] = CONTRARIAN)
    => /\ resp.result = <<EXPLAINER, INVESTOR, CONTRARIAN>>
       /\ resp.scored_trend.keyword_matches \cap property_keywords = {}
       /\ resp.scored_trend.virality_score < 50

\* A Score firing the explainer, investor and contrarian rules only.
C39_Witness ==
    /\ resp.op = "_select_angles"
    /\ resp.scored_trend.relevance_score = 80
    /\ resp.scored_trend.macro_impact_score = 60
    /\ resp.result = <<EXPLAINER, INVESTOR, CONTRARIAN>>

(* C32: every read of a draft (the list, the single fetch, the export of a
   schedule request) returns the draft's edited body once it has one, and
   its generated body before. *)
C32_ReadsReturnEditedBody ==
    [][/\ resp'.op = "get_content_draft" =>
            \A content_id \in 1..Len(content_drafts) :
                get_content_draft(content_id) =>
                    resp'.detail.content =
                        IF content_drafts[content_id].edited_content # None
                        THEN content_drafts[content_id].edited_content
                        ELSE content_drafts[content_id].content
       /\ resp'.op = "get_content_drafts" =>
            \A status \in {None} \cup ContentStatus :
                get_content_drafts(status) =>
                    /\ \A i \in 1..Len(content_drafts) :
                          (status = None \/ content_drafts[i].status = status)
                          => \E k \in 1..Len(resp'.detail) : resp'.detail[k].id = i
                    /\ \A k \in 1..Len(resp'.detail) :
                          resp'.detail[k].content =
                              IF content_drafts[resp'.detail[k].id].edited_content # None
                              THEN content_drafts[resp'.detail[k].id].edited_content
                              ELSE content_drafts[resp'.detail[k].id].content
       /\ (resp'.op = "schedule" /\ resp'.code = 200) =>
            \A request \in ScheduleRequests :
                schedule_content(request) =>
                    resp'.detail.content =
                        IF content_drafts[request.content_id].edited_content # None
                        THEN content_drafts[request.content_id].edited_content
                        ELSE content_drafts[request.content_id].content]_vars

\* An approved draft carrying an edit has been exported with its edited body.
C32_Witness ==
    /\ resp.op = "schedule"
    /\ resp.code = 200
    /\ resp.detail.content = "edited"
    /\ content_drafts[resp.id].content = "generated"

(* C38: a configuration value is never committed without its config_updated
   audit entry: in every state, each configuration row has an audit entry
   for the value it holds. *)
C38_ConfigAndAuditTogether ==
    \A i \in 1..Len(configurations) :
        \E k \in 1..Len(audit_logs) :
            /\ audit_logs[k].action = "config_updated"
            /\ audit_logs[k].entity_id = i
            /\ audit_logs[k].details.value = configurations[i].value

(* C33: a scoring cycle in which a row meets a storage conflict while other
   rows of the cycle do not still returns normally, and the Scores of the
   rows that did not fail are persisted; a generation cycle returns normally
   whichever of its calls fail. *)
C33_PartialFailureReturnsNormally ==
    [][/\ \A w \in Workers :
            (/\ pc[w] = "score"
             /\ score_commit(w)
             /\ \E k \in 1..Len(sess[w].pending) :
                   NumScoresOf(scored_trends, sess[w].pending[k].trend_id) = 0)
            => /\ resp'.status = "success"
               /\ \A k \in 1..Len(sess[w].pending) :
                     NumScoresOf(scored_trends, sess[w].pending[k].trend_id) = 0
                     => NumScoresOf(scored_trends', sess[w].pending[k].trend_id) = 1
       /\ resp'.op = "generate" => resp'.status = "success"]_vars

(* C36: once a Score has a committed draft, no generation cycle adds a draft
   for it: the (angle, platform) combinations drafted for the Score, and the
   number of its drafts, stay as the first committing cycle left them. *)
DraftedPairs(rows, scored_trend_id) ==
    {<<rows[d].angle, rows[d].platform>> :
        d \in {k \in 1..Len(rows) : rows[k].scored_trend_id = scored_trend_id}}

C36_DraftedSetFixed ==
    [][\A i \in 1..Len(scored_trends) :
          DraftedPairs(content_drafts, i) # {}
              => /\ DraftedPairs(content_drafts', i) = DraftedPairs(content_drafts, i)
                 /\ NumDraftsFor(content_drafts', i) <= NumDraftsFor(content_drafts, i)]_vars

(* C37: when generation cycles with a fixed limit keep being run, every
   eligible Score without a draft is eventually selected by a cycle, even if
   the generation calls of Scores of higher relevance keep failing. *)
C37_EveryEligibleEventuallySelected ==
    \A i \in 1..NumScores :
        (/\ scored_trends[i].passed_filter
         /\ \A d \in 1..Len(content_drafts) : content_drafts[d].scored_trend_id # i)
        ~> (\E w \in Workers :
               /\ pc[w] = "generate"
               /\ \E k \in 1..Len(sess[w].selected) : sess[w].selected[k] = i)

\* Every delivered record is persisted, every item is scored and every
\* eligible Score has a draft: a run has processed all delivered records.
AllDeliveredProcessed ==
    /\ \A record \in FeedEntries : Existing(<<"google_news", record.id>>)
    /\ \A i \in 1..Len(trends) :
          /\ trends[i].processed
          /\ \E k \in 1..Len(scored_trends) : scored_trends[k].trend_id = i
    /\ \A k \in 1..Len(scored_trends) :
          scored_trends[k].passed_filter
          => \E d \in 1..Len(content_drafts) :
                content_drafts[d].scored_trend_id = k

(* C34: the pipeline is idempotent: once a run has processed all delivered
   records (all persisted, all scored, every eligible Score drafted), no
   step of a later run of run_ingestion_pipeline over the same delivered
   records changes the Items, the Scores or the Drafts. *)
C34_PipelineIdempotent ==
    [][AllDeliveredProcessed
       => UNCHANGED <<trends, scored_trends, content_drafts>>]_vars

\* A whole later run has returned from its generation stage with nothing
\* generated, over a store that holds the drafts of an earlier run.
C34_Witness ==
    /\ AllDeliveredProcessed
    /\ AllIdle
    /\ content_drafts # <<>>
    /\ resp.op = "generate"
    /\ resp.count = 0

====
